---------------------------- MODULE Spec2Model ----------------------------
(***************************************************************************)
(* Model of deniz-blue/action-events-repo: the event-file validation       *)
(* pipelines `run` (shared error counter, Promise.all, manifest), the `run` *)
(* of main.ts (no hidden-file filter, no manifest) and `checkEvents`        *)
(* (exceptions, Promise.allSettled), and the position resolver              *)
(* `getPosition`.  Spec is the pipelines where reads succeed and the sink   *)
(* does not raise, SpecFaults the same pipelines where they may fail, and   *)
(* SpecPos the resolver on its own.                                         *)
(*                                                                         *)
(* Texts are TLA+ strings; offsets are 0-indexed as in JavaScript.          *)
(***************************************************************************)
EXTENDS Integers, Sequences, FiniteSets, TLC

VARIABLES
    prog,        \* which pipeline runs: "run", "main" (the run of main.ts)
                 \* or "checkEvents"
    eventsPath,  \* the "events-path" input / the `dir` argument
    files,       \* what globSync returned: a sequence of directory entries
    phase,       \* "init", "await" (inside await Promise.all...), "done"
    st,          \* st[i]: where the task of files[i] stands
    errorCount,  \* run: let errorCount
    events,      \* run: the Map `events`, as its keys in insertion order
    results,     \* checkEvents: the settled results of Promise.allSettled
    sink,        \* every call made on @actions/core, in order
    writes,      \* every writeFileSync call, in order
    outcome,     \* "running", "success" or "failed" (setFailed was called)
    ptext,       \* position resolver: the text given to getPosition
    poffset,     \* position resolver: the offset given to getPosition
    ppos         \* position resolver: <<result>>, or <<>> before the call

pipeVars == <<prog, eventsPath, files, phase, st, errorCount, events, results,
              sink, writes, outcome>>
posVars == <<ptext, poffset, ppos>>
vars == <<prog, eventsPath, files, phase, st, errorCount, events, results,
          sink, writes, outcome, ptext, poffset, ppos>>

\* JavaScript's undefined, where a string may stand.
Null == "<undefined>"

\* An optional number: None is undefined, Some(n) is n.
None == <<>>
Some(n) == <<n>>

(***************************************************************************)
(* Bounds.                                                                 *)
(***************************************************************************)
MaxFiles == 2
MaxLen == 4

(***************************************************************************)
(* JavaScript string primitives, as the code uses them.                    *)
(***************************************************************************)
Min(a, b) == IF a < b THEN a ELSE b
Max(a, b) == IF a > b THEN a ELSE b

\* text[i] for a 0-indexed i, "" past either end.
CharAt(text, i) ==
    IF i >= 0 /\ i < Len(text) THEN SubSeq(text, i + 1, i + 1) ELSE ""

\* String.prototype.slice(start, end): negative indexes count from the end,
\* both are clamped to [0, length].
Slice(text, start, end) ==
    LET n == Len(text)
        from == IF start < 0 THEN Max(n + start, 0) ELSE Min(start, n)
        to == IF end < 0 THEN Max(n + end, 0) ELSE Min(end, n)
    IN  IF from >= to THEN "" ELSE SubSeq(text, from + 1, to)

\* String.prototype.split(sep) for a one-character separator: the pieces
\* between the separators, so one more piece than there are separators.
RECURSIVE SplitFrom(_, _, _, _)
SplitFrom(text, sep, i, piece) ==
    IF i >= Len(text) THEN <<piece>>
    ELSE IF CharAt(text, i) = sep
         THEN <<piece>> \o SplitFrom(text, sep, i + 1, "")
         ELSE SplitFrom(text, sep, i + 1, piece \o CharAt(text, i))

Split(text, sep) == SplitFrom(text, sep, 0, "")

\* String.prototype.lastIndexOf(ch, position) for a one-character ch: the
\* position is clamped to [0, length - 1] (a negative position searches at
\* index 0), and the result is the greatest index <= it holding ch, or -1.
RECURSIVE LastIndexDown(_, _, _)
LastIndexDown(text, ch, i) ==
    IF i < 0 THEN -1
    ELSE IF CharAt(text, i) = ch THEN i
    ELSE LastIndexDown(text, ch, i - 1)

LastIndexOf(text, ch, position) ==
    IF Len(text) < 1 THEN -1
    ELSE LastIndexDown(text, ch, Min(Max(position, 0), Len(text) - 1))

(***************************************************************************)
(* Position Resolver.                                                      *)
(***************************************************************************)
getPosition(text, offset) ==
    [line |-> Len(Split(Slice(text, 0, offset), "\n")) - 1,
     column |-> offset - LastIndexOf(text, "\n", offset - 1) - 1]

(***************************************************************************)
(* Syntax Locator: jsonc-parser's parseTree and findNodeAtLocation, for the *)
(* JSON subset of objects, arrays, unescaped strings and unsigned integers, *)
(* with " " and "\n" as white space.  A node is                             *)
(* [type, offset, length, value, children]; an object's children are its   *)
(* property nodes, and a property's children are <<key node, value node>>. *)
(***************************************************************************)
Node(type, offset, length, value, children) ==
    [type |-> type, offset |-> offset, length |-> length, value |-> value,
     children |-> children]

\* undefined, where a node may stand.
NoNode == Node("undefined", 0, 0, Null, <<>>)

Parsed(node, end) == [ok |-> TRUE, node |-> node, end |-> end]
ParseFail == [ok |-> FALSE, node |-> NoNode, end |-> 0]

IsWs(c) == c \in {" ", "\n"}
IsDigit(c) == c \in {"0", "1", "2", "3", "4", "5", "6", "7", "8", "9"}

RECURSIVE SkipWs(_, _)
SkipWs(text, i) == IF IsWs(CharAt(text, i)) THEN SkipWs(text, i + 1) ELSE i

\* The index of the quote closing the string opened before i, or -1.
RECURSIVE ClosingQuote(_, _)
ClosingQuote(text, i) ==
    LET c == CharAt(text, i)
    IN  IF c = "" \/ c = "\n" \/ c = "\\" THEN -1
        ELSE IF c = "\"" THEN i
        ELSE ClosingQuote(text, i + 1)

ParseString(text, i) ==
    LET q == ClosingQuote(text, i + 1)
    IN  IF CharAt(text, i) # "\"" \/ q < 0 THEN ParseFail
        ELSE Parsed(Node("string", i, q + 1 - i, Slice(text, i + 1, q), <<>>),
                    q + 1)

RECURSIVE DigitsEnd(_, _)
DigitsEnd(text, i) ==
    IF IsDigit(CharAt(text, i)) THEN DigitsEnd(text, i + 1) ELSE i

ParseNumber(text, i) ==
    LET e == DigitsEnd(text, i)
    IN  IF e = i \/ (CharAt(text, i) = "0" /\ e > i + 1) THEN ParseFail
        ELSE Parsed(Node("number", i, e - i, Slice(text, i, e), <<>>), e)

RECURSIVE ParseValue(_, _)
RECURSIVE ParseMembers(_, _, _, _)
RECURSIVE ParseElements(_, _, _, _)

\* One "key": value member at i, then "," and the next member, or "}".
ParseMembers(text, start, i, props) ==
    LET k == ParseString(text, i)
        colon == SkipWs(text, k.end)
        v == ParseValue(text, SkipWs(text, colon + 1))
        prop == Node("property", k.node.offset, v.end - k.node.offset, Null,
                     <<k.node, v.node>>)
        n == SkipWs(text, v.end)
    IN  IF ~k.ok THEN ParseFail
        ELSE IF CharAt(text, colon) # ":" THEN ParseFail
        ELSE IF ~v.ok THEN ParseFail
        ELSE IF CharAt(text, n) = ","
             THEN ParseMembers(text, start, SkipWs(text, n + 1),
                               Append(props, prop))
        ELSE IF CharAt(text, n) = "}"
             THEN Parsed(Node("object", start, n + 1 - start, Null,
                              Append(props, prop)), n + 1)
        ELSE ParseFail

\* One element at i, then "," and the next element, or "]".
ParseElements(text, start, i, elems) ==
    LET v == ParseValue(text, i)
        n == SkipWs(text, v.end)
    IN  IF ~v.ok THEN ParseFail
        ELSE IF CharAt(text, n) = ","
             THEN ParseElements(text, start, SkipWs(text, n + 1),
                                Append(elems, v.node))
        ELSE IF CharAt(text, n) = "]"
             THEN Parsed(Node("array", start, n + 1 - start, Null,
                              Append(elems, v.node)), n + 1)
        ELSE ParseFail

ParseValue(text, i) ==
    LET c == CharAt(text, i)
        j == SkipWs(text, i + 1)
    IN  IF c = "{"
        THEN IF CharAt(text, j) = "}"
             THEN Parsed(Node("object", i, j + 1 - i, Null, <<>>), j + 1)
             ELSE ParseMembers(text, i, j, <<>>)
        ELSE IF c = "["
        THEN IF CharAt(text, j) = "]"
             THEN Parsed(Node("array", i, j + 1 - i, Null, <<>>), j + 1)
             ELSE ParseElements(text, i, j, <<>>)
        ELSE IF c = "\"" THEN ParseString(text, i)
        ELSE IF IsDigit(c) THEN ParseNumber(text, i)
        ELSE ParseFail

\* One JSON value between optional white space, and nothing after it.
ParseDocument(text) ==
    LET r == ParseValue(text, SkipWs(text, 0))
    IN  IF r.ok /\ SkipWs(text, r.end) = Len(text) THEN r ELSE ParseFail

\* JSON.parse(content): throws a SyntaxError unless the text is one JSON
\* value.  The schema is a table over texts, so the value is not built.
JSONParse(content) == [threw |-> ~ParseDocument(content).ok]

\* parseTree(content): the root node, or undefined when the library finds
\* no value (`miss`: its declared result type is Node | undefined).
parseTree(content, miss) ==
    IF miss \/ ~ParseDocument(content).ok THEN NoNode
    ELSE ParseDocument(content).node

\* A LogicalPath step: an object key or an array index.
Key(k) == [kind |-> "key", key |-> k, index |-> 0]
Index(n) == [kind |-> "index", key |-> "", index |-> n]

\* The first property of an object node whose key is `key`, from child m.
RECURSIVE FirstProperty(_, _, _)
FirstProperty(node, key, m) ==
    IF m > Len(node.children) THEN 0
    ELSE IF Len(node.children[m].children) = 2
            /\ node.children[m].children[1].value = key
         THEN m
    ELSE FirstProperty(node, key, m + 1)

RECURSIVE FindFrom(_, _, _)
FindFrom(node, path, k) ==
    IF k > Len(path) THEN node
    ELSE LET seg == path[k]
             m == FirstProperty(node, seg.key, 1)
         IN  IF seg.kind = "key"
             THEN IF node.type # "object" \/ m = 0 THEN NoNode
                  ELSE FindFrom(node.children[m].children[2], path, k + 1)
             ELSE IF node.type # "array" \/ seg.index < 0
                     \/ seg.index >= Len(node.children)
                  THEN NoNode
                  ELSE FindFrom(node.children[seg.index + 1], path, k + 1)

findNodeAtLocation(root, path) ==
    IF root = NoNode THEN NoNode ELSE FindFrom(root, path, 1)


(***************************************************************************)
(* The environment: the documents the files may hold, with what the schema *)
(* (EventDataSchema, a table here) answers for each, and the entries the   *)
(* directory walk may return.                                              *)
(*                                                                         *)
(* Each document states its class ("invalid": not JSON, "ok": passes the   *)
(* schema, "schema": fails it) and, for every schema issue, `at`: the      *)
(* <<offset, length>> of the source text of the value the issue's path     *)
(* names, or <<>> when the document holds no such value.  `cls` and `at`   *)
(* are read off the text by hand; the pipelines never look at them.        *)
(***************************************************************************)
Issue(path, message, at) == [path |-> path, message |-> message, at |-> at]

DocBad == [text |-> "{\"a\": }", cls |-> "invalid", issues |-> <<>>]

DocOk == [text |-> "{\"a\":1}", cls |-> "ok", issues |-> <<>>]

DocSpec ==
    [text |-> "{\"tags\":[1,2,\n3]}", cls |-> "schema",
     issues |-> << Issue(<<Key("name")>>, "Required", <<>>),
                   Issue(<<Key("tags"), Index(2)>>, "Expected string", <<14, 1>>) >>]

DocDeep ==
    [text |-> "\n{\"n\":1,\n \"t\":[1,\n  \"x\"]}", cls |-> "schema",
     issues |-> << Issue(<<Key("t"), Index(2)>>, "Out of range", <<>>),
                   Issue(<<Key("t"), Index(1)>>, "Expected number", <<20, 3>>),
                   Issue(<<Key("n"), Key("z")>>, "Expected object", <<>>),
                   Issue(<<Index(0)>>, "Expected array", <<>>),
                   Issue(<<Key("t")>>, "Too many items", <<14, 10>>),
                   Issue(<<>>, "Unrecognized key", <<1, 24>>) >>]

DocRoot ==
    [text |-> "[ 7 ]", cls |-> "schema",
     issues |-> << Issue(<<Index(0)>>, "Expected object", <<2, 1>>) >>]

Docs == {DocBad, DocOk, DocSpec, DocDeep, DocRoot}

DocOf(content) == CHOOSE d \in Docs : d.text = content

\* EventDataSchema.safeParse(JSON.parse(content)).
SafeParse(content) ==
    [success |-> DocOf(content).issues = <<>>, issues |-> DocOf(content).issues]

\* What readdirSync returns for a directory the walk matched.
DirChildren == <<"x.json", ".cache", "y.json">>

\* github.context.repo
Owner == "owner"
Repo == "repo"

\* The i-th entry lies in "a" when i is odd and at the top when i is even.
ParentOf(i) == IF i % 2 = 1 THEN "a" ELSE ""
NameOf(i) == "e" \o ToString(i) \o ".json"

Entry(parent, name, kind, text, miss) ==
    [parent |-> parent, name |-> name, kind |-> kind, text |-> text,
     miss |-> miss]

\* The entries slot i may hold: a hidden file, a directory or another
\* non-file whose name matches the glob, or a file holding a document.
EntryChoices(i) ==
    {Entry(ParentOf(i), "." \o NameOf(i), "file", DocBad.text, FALSE),
     Entry(ParentOf(i), NameOf(i), "dir", "", FALSE),
     Entry(ParentOf(i), NameOf(i), "other", "", FALSE)}
    \cup {Entry(ParentOf(i), NameOf(i), "file", d.text, FALSE) : d \in Docs}
    \cup {Entry(ParentOf(i), NameOf(i), "file", d.text, TRUE) :
            d \in {x \in Docs : x.cls = "schema"}}

RECURSIVE FileSeqs(_)
FileSeqs(n) ==
    IF n = 0 THEN {<<>>}
    ELSE {Append(s, e) : s \in FileSeqs(n - 1), e \in EntryChoices(n)}

\* What goes wrong with an entry, "none" where nothing is said:
\*   "read"    the read of the file fails with an Error,
\*   "readOdd" the read is rejected with a value that is no Error,
\*   "info"    core.info raises an Error when called for the file.
FaultOf(e) == IF "fault" \in DOMAIN e THEN e.fault ELSE "none"

WithFault(e, fault) ==
    [parent |-> e.parent, name |-> e.name, kind |-> e.kind, text |-> e.text,
     miss |-> e.miss, fault |-> fault]

\* The entries slot i may hold where reads and the sink may fail: those of
\* EntryChoices, and a valid file with each of the faults.
FaultChoices(i) ==
    {WithFault(e, "none") : e \in EntryChoices(i)}
    \cup {WithFault(Entry(ParentOf(i), NameOf(i), "file", DocOk.text, FALSE), f) :
            f \in {"read", "readOdd", "info"}}

RECURSIVE FaultSeqs(_)
FaultSeqs(n) ==
    IF n = 0 THEN {<<>>}
    ELSE {Append(s, e) : s \in FaultSeqs(n - 1), e \in FaultChoices(n)}

\* The message of the Error a failed read carries, the text String() gives
\* a rejection value that is no Error, and the message of the Error the
\* sink raises.
ReadError(path) ==
    "ENOENT: no such file or directory, open '" \o path \o "'"
ReadDirError == "EISDIR: illegal operation on a directory, read"
OddValue == "rejected"
SinkError == "write EPIPE"

(***************************************************************************)
(* Paths.                                                                  *)
(***************************************************************************)
StartsWith(s, prefix) ==
    Len(s) >= Len(prefix) /\ SubSeq(s, 1, Len(prefix)) = prefix

\* path.normalize, for the paths that occur: leading "./" segments go, and
\* the empty path is ".".
RECURSIVE Normalize(_)
Normalize(p) ==
    IF StartsWith(p, "./") THEN Normalize(SubSeq(p, 3, Len(p)))
    ELSE IF p = "" THEN "."
    ELSE p

\* path.join(a, b): the non-empty segments joined by "/", normalized.
join(a, b) ==
    Normalize(IF a = "" THEN b ELSE IF b = "" THEN a ELSE a \o "/" \o b)

\* core.getInput("events-path") || "./events"
Cwd == IF eventsPath = "" THEN "./events" ELSE eventsPath

\* The path of an entry relative to the events root, as globSync returns it
\* without withFileTypes.
RelPath(e) == join(e.parent, e.name)

\* dirent.parentPath of an entry globSync returns with withFileTypes: the
\* directory of the entry, cwd included.  run opens join(parentPath, name)
\* with readFile from the working directory, not from the events root.
ParentPath(e) == join(Cwd, e.parent)

(***************************************************************************)
(* The annotation sink (@actions/core) and the calls made on it.           *)
(***************************************************************************)
Call(op, msg, file, sl, sc, el, ec) ==
    [op |-> op, msg |-> msg, file |-> file, startLine |-> sl,
     startColumn |-> sc, endLine |-> el, endColumn |-> ec]

Info(msg) == Call("info", msg, Null, None, None, None, None)
ErrorAt(msg, file) == Call("error", msg, file, None, None, None, None)
ErrorNoFile(msg) == Call("error", msg, Null, None, None, None, None)
SetFailed(msg) == Call("setFailed", msg, Null, None, None, None, None)

\* Mutant of IssueDiagnostic: the end is taken at the value's last character
\* instead of just past it.
IssueDiagnosticInclusiveEnd(path, content, json, issue) ==
    LET node == findNodeAtLocation(json, issue.path)
        start == getPosition(content, node.offset)
        end == getPosition(content, node.offset + node.length - 1)
    IN  Call("error", issue.message, path,
             IF node # NoNode THEN Some(start.line + 1) ELSE None,
             IF node # NoNode THEN Some(start.column + 1) ELSE None,
             IF node # NoNode THEN Some(end.line + 1) ELSE None,
             IF node # NoNode THEN Some(end.column + 1) ELSE None)

\* Mutant of IssueDiagnostic: the resolver's 0-indexed line and column are
\* reported as they are.
IssueDiagnosticZeroIndexed(path, content, json, issue) ==
    LET node == findNodeAtLocation(json, issue.path)
        start == getPosition(content, node.offset)
        end == getPosition(content, node.offset + node.length)
    IN  Call("error", issue.message, path,
             IF node # NoNode THEN Some(start.line) ELSE None,
             IF node # NoNode THEN Some(start.column) ELSE None,
             IF node # NoNode THEN Some(end.line) ELSE None,
             IF node # NoNode THEN Some(end.column) ELSE None)

\* The core.error call for one issue: located when the path resolves.
IssueDiagnostic(path, content, json, issue) ==
    LET node == findNodeAtLocation(json, issue.path)
        start == getPosition(content, node.offset)
        end == getPosition(content, node.offset + node.length)
    IN  Call("error", issue.message, path,
             IF node # NoNode THEN Some(start.line + 1) ELSE None,
             IF node # NoNode THEN Some(start.column + 1) ELSE None,
             IF node # NoNode THEN Some(end.line + 1) ELSE None,
             IF node # NoNode THEN Some(end.column + 1) ELSE None)

\* Mutant of IssueLoop: the loop ends at the first issue that is not located.
RECURSIVE IssueLoopStopsAtMiss(_, _, _, _, _)
IssueLoopStopsAtMiss(path, content, json, issues, k) ==
    IF k > Len(issues) THEN <<>>
    ELSE IF findNodeAtLocation(json, issues[k].path) = NoNode THEN <<>>
    ELSE <<Call("error", issues[k].message, path,
                Some(getPosition(content,
                                 findNodeAtLocation(json, issues[k].path).offset).line + 1),
                Some(getPosition(content,
                                 findNodeAtLocation(json, issues[k].path).offset).column + 1),
                Some(getPosition(content,
                                 findNodeAtLocation(json, issues[k].path).offset
                                 + findNodeAtLocation(json, issues[k].path).length).line + 1),
                Some(getPosition(content,
                                 findNodeAtLocation(json, issues[k].path).offset
                                 + findNodeAtLocation(json, issues[k].path).length).column + 1))>>
         \o IssueLoopStopsAtMiss(path, content, json, issues, k + 1)

\* for (const issue of issues) core.error(...), from issue k on.
RECURSIVE IssueLoop(_, _, _, _, _)
IssueLoop(path, content, json, issues, k) ==
    IF k > Len(issues) THEN <<>>
    ELSE <<IssueDiagnostic(path, content, json, issues[k])>>
         \o IssueLoop(path, content, json, issues, k + 1)

\* const json = parseTree(content); if (json == null) return; for (...) ...
AnnotateIssues(path, content, miss, issues) ==
    LET json == parseTree(content, miss)
    IN  IF json = NoNode THEN <<>>
        ELSE IssueLoop(path, content, json, issues, 1)


(***************************************************************************)
(* Initial states.  Reads succeed and the sink does not raise.             *)
(***************************************************************************)
Pending(fs) == [i \in DOMAIN fs |-> "pending"]

Init ==
    /\ prog \in {"run", "main", "checkEvents"}
    /\ eventsPath \in {"", "."}
    /\ files \in UNION {FileSeqs(n) : n \in 0..MaxFiles}
    \* checkEvents reads whatever the walk matched: entries that are no
    \* regular files make readFileSync fail, and reads succeed here.
    /\ prog = "checkEvents" => \A i \in DOMAIN files : files[i].kind = "file"
    /\ phase = "init"
    /\ st = Pending(files)
    /\ errorCount = 0
    /\ events = <<>>
    /\ results = <<>>
    /\ sink = <<>>
    /\ writes = <<>>
    /\ outcome = "running"
    /\ ptext = ""
    /\ poffset = 0
    /\ ppos = <<>>

\* The concatenation of f[1], ..., f[n], each a sequence.
RECURSIVE Flatten(_, _)
Flatten(f, n) == IF n = 0 THEN <<>> ELSE Flatten(f, n - 1) \o f[n]

(***************************************************************************)
(* run (the pipeline with the shared counter and the manifest).            *)
(***************************************************************************)
\* The path an entry is read and reported under.
RunPath(e) == join(ParentPath(e), e.name)

NotHidden(x) == ~StartsWith(x, ".")

\* The task of one entry up to its first await: hidden entries return at
\* once, directories are listed, other non-files return, files start the
\* read.
TaskStart(e) ==
    IF StartsWith(e.name, ".")
    THEN [st |-> "Skipped", sink |-> <<>>, writes |-> <<>>]
    ELSE IF e.kind # "file"
    THEN IF e.kind = "dir"
         THEN [st |-> "Listed",
               sink |-> <<Info("Listed directory: " \o RunPath(e))>>,
               writes |-> <<[path |-> join(RunPath(e), ".ls"),
                             data |-> SelectSeq(DirChildren, NotHidden)]>>]
         ELSE [st |-> "Ignored", sink |-> <<>>, writes |-> <<>>]
    ELSE [st |-> "reading", sink |-> <<>>, writes |-> <<>>]

\* run() up to `await Promise.all(...)`: files.map calls every task, and
\* each runs to its first await before the next starts.
RunStart ==
    /\ prog = "run"
    /\ phase = "init"
    /\ phase' = "await"
    /\ errorCount' = 0
    /\ events' = <<>>
    /\ st' = [i \in DOMAIN files |-> TaskStart(files[i]).st]
    /\ sink' = sink
               \o <<Info("@deniz-blue/action-events-repo is running"),
                    Info("Found " \o ToString(Len(files)) \o " events.")>>
               \o Flatten([i \in DOMAIN files |-> TaskStart(files[i]).sink],
                          Len(files))
    /\ writes' = writes
                 \o Flatten([i \in DOMAIN files |-> TaskStart(files[i]).writes],
                            Len(files))
    /\ UNCHANGED <<prog, eventsPath, files, results, outcome, posVars>>

\* The outcome of one task body: the file's terminal state, the counter,
\* the map's keys, and the calls it made on the sink.
Outcome(state, count, evs, calls) ==
    [st |-> state, errorCount |-> count, events |-> evs, sink |-> calls]

\* Mutant of OnSchemaFailure: the counter grows by one per issue.
OnSchemaFailurePerIssue(path, content, miss, issues, count, evs) ==
    [st |-> "SchemaFailed", errorCount |-> count + Len(issues), events |-> evs,
     sink |-> AnnotateIssues(path, content, miss, issues)]

\* Mutant of OnSchemaFailure: the event is recorded before the result is
\* looked at.
OnSchemaFailureRecorded(path, content, miss, issues, count, evs) ==
    [st |-> "SchemaFailed", errorCount |-> count + 1,
     events |-> Append(evs, path),
     sink |-> AnnotateIssues(path, content, miss, issues)]

\* if (!result.success) { errorCount++; ...one core.error per issue... }
OnSchemaFailure(path, content, miss, issues, count, evs) ==
    Outcome("SchemaFailed", count + 1, evs,
            AnnotateIssues(path, content, miss, issues))

\* else { events.set(path, result.data); core.info(...) }
OnValidated(path, count, evs) ==
    Outcome("Validated", count,
            IF \E k \in DOMAIN evs : evs[k] = path THEN evs
            ELSE Append(evs, path),
            <<Info("Validated event: " \o path)>>)

\* catch (e) { errorCount++; core.error(...) }
OnParseError(path, count, evs) ==
    Outcome("ParseFailed", count + 1, evs,
            <<ErrorAt("Failed to parse JSON in file: " \o path, path)>>)

\* else { events.set(path, result.data); core.info(...) } where core.info
\* raises: the event is recorded, and the catch block counts the file and
\* reports it.
OnInfoRaised(path, count, evs) ==
    Outcome("Caught", count + 1,
            IF \E k \in DOMAIN evs : evs[k] = path THEN evs
            ELSE Append(evs, path),
            <<ErrorAt("Failed to parse JSON in file: " \o path, path)>>)

\* The task of one file from the return of readFile to its end: the try
\* block, which holds no await.
TaskBody(e, count, evs) ==
    LET path == RunPath(e)
        content == e.text
        result == SafeParse(content)
    IN  IF JSONParse(content).threw THEN OnParseError(path, count, evs)
        ELSE IF ~result.success
        THEN OnSchemaFailure(path, content, e.miss, result.issues, count, evs)
        ELSE IF FaultOf(e) = "info" THEN OnInfoRaised(path, count, evs)
        ELSE OnValidated(path, count, evs)

\* `await readFile(...)` rejects: the task's promise rejects, as nothing in
\* the task catches it.  The first rejection rejects Promise.all, and run()
\* goes on in its catch block:
\*     if (error instanceof Error) core.setFailed(error.message)
\* A later rejection finds Promise.all settled and changes nothing.
OnReadRejected(e, ph, out) ==
    IF ph = "done" THEN [sink |-> <<>>, outcome |-> out]
    ELSE IF FaultOf(e) = "read"
    THEN [sink |-> <<SetFailed(ReadError(RunPath(e)))>>, outcome |-> "failed"]
    ELSE [sink |-> <<>>, outcome |-> "success"]

\* The read of file i completes and its task runs to its end.  The reads
\* complete in any order, and they go on completing after run() has left
\* Promise.all through a rejection.
RunResume(i) ==
    /\ prog \in {"run", "main"}
    /\ phase \in {"await", "done"}
    /\ i \in DOMAIN files
    /\ st[i] = "reading"
    /\ IF FaultOf(files[i]) \in {"read", "readOdd"}
       THEN LET r == OnReadRejected(files[i], phase, outcome)
            IN  /\ st' = [st EXCEPT ![i] = "Rejected"]
                /\ phase' = "done"
                /\ sink' = sink \o r.sink
                /\ outcome' = r.outcome
                /\ UNCHANGED <<errorCount, events>>
       ELSE LET r == TaskBody(files[i], errorCount, events)
            IN  /\ st' = [st EXCEPT ![i] = r.st]
                /\ errorCount' = r.errorCount
                /\ events' = r.events
                /\ sink' = sink \o r.sink
                /\ UNCHANGED <<phase, outcome>>
    /\ UNCHANGED <<prog, eventsPath, files, results, writes, posVars>>

\* The object JSON.stringify serialises into .index.json.
Manifest(evs) ==
    [repository |-> Owner \o "/" \o Repo,
     events |-> [k \in DOMAIN evs |->
                    [path |-> evs[k],
                     url |-> "https://" \o Owner \o ".github.io/" \o Repo
                             \o "/events/" \o evs[k]]]]

\* Mutant of RunVerdict: one failing file is let through.
RunVerdictOffByOne(count) == IF count > 1 THEN "failed" ELSE "success"

\* if (errorCount > 0) { core.setFailed(...); return; } core.info("Complete")
RunVerdict(count) == IF count > 0 THEN "failed" ELSE "success"

\* Mutant of IndexWrites: the counter is checked before the manifest is
\* written, so a failed run returns without it.
IndexWritesAfterVerdict(count, evs) ==
    IF count > 0 THEN <<>>
    ELSE <<[path |-> ".index.json", data |-> Manifest(evs)]>>

\* What run() writes once Promise.all resolved, the counter being count:
\* writeFileSync(".index.json", ...) stands before the counter is looked at.
IndexWrites(count, evs) ==
    <<[path |-> ".index.json", data |-> Manifest(evs)]>>

\* run() after Promise.all resolved: the manifest, then the verdict.
RunFinish ==
    /\ prog = "run"
    /\ phase = "await"
    /\ \A i \in DOMAIN files : st[i] # "reading"
    /\ phase' = "done"
    /\ writes' = writes \o IndexWrites(errorCount, events)
    /\ sink' = sink
               \o <<Info("Repository: " \o Owner \o "/" \o Repo),
                    Info("Pages URL: https://" \o Owner \o ".github.io/" \o Repo)>>
               \o IF RunVerdict(errorCount) = "failed"
                  THEN <<SetFailed("Event data validation failed for "
                                   \o ToString(errorCount) \o " event(s).")>>
                  ELSE <<Info("Complete")>>
    /\ outcome' = RunVerdict(errorCount)
    /\ UNCHANGED <<prog, eventsPath, files, st, errorCount, events, results,
                   posVars>>

(***************************************************************************)
(* run of main.ts: the same task body, but no entry is skipped for its     *)
(* name, a directory's listing goes to ".ls" in the working directory, and *)
(* no manifest is written.                                                 *)
(***************************************************************************)
\* The task of one entry up to its first await.
MainTaskStart(e) ==
    IF e.kind # "file"
    THEN IF e.kind = "dir"
         THEN [st |-> "Listed", sink |-> <<>>,
               writes |-> <<[path |-> ".ls", data |-> DirChildren]>>]
         ELSE [st |-> "Ignored", sink |-> <<>>, writes |-> <<>>]
    ELSE [st |-> "reading", sink |-> <<>>, writes |-> <<>>]

\* run() of main.ts up to `await Promise.all(...)`.
MainStart ==
    /\ prog = "main"
    /\ phase = "init"
    /\ phase' = "await"
    /\ errorCount' = 0
    /\ events' = <<>>
    /\ st' = [i \in DOMAIN files |-> MainTaskStart(files[i]).st]
    /\ sink' = sink
               \o <<Info("@deniz-blue/action-events-repo is running"),
                    Info("Found " \o ToString(Len(files)) \o " events.")>>
    /\ writes' = writes
                 \o Flatten([i \in DOMAIN files |->
                                MainTaskStart(files[i]).writes], Len(files))
    /\ UNCHANGED <<prog, eventsPath, files, results, outcome, posVars>>

\* run() of main.ts after Promise.all resolved: the verdict.
MainFinish ==
    /\ prog = "main"
    /\ phase = "await"
    /\ \A i \in DOMAIN files : st[i] # "reading"
    /\ phase' = "done"
    /\ sink' = sink
               \o IF RunVerdict(errorCount) = "failed"
                  THEN <<SetFailed("Event data validation failed for "
                                   \o ToString(errorCount) \o " event(s).")>>
                  ELSE <<Info("Complete")>>
    /\ outcome' = RunVerdict(errorCount)
    /\ UNCHANGED <<prog, eventsPath, files, st, errorCount, events, results,
                   writes, posVars>>

(***************************************************************************)
(* checkEvents (the pipeline that signals failures by exceptions).         *)
(***************************************************************************)
Fulfilled == [status |-> "fulfilled", class |-> "", path |-> "",
              issues |-> <<>>, content |-> "", miss |-> FALSE, message |-> ""]

Rejected(class, path, issues, content, miss) ==
    [status |-> "rejected", class |-> class, path |-> path, issues |-> issues,
     content |-> content, miss |-> miss, message |-> ""]

\* A rejection with a value of neither class: an Error with a message, or
\* (class "value") something that is no Error, with the text String() gives.
RejectedWith(class, message) ==
    [status |-> "rejected", class |-> class, path |-> "", issues |-> <<>>,
     content |-> "", miss |-> FALSE, message |-> message]

\* Mutant of CheckTask: the file is reported under its path relative to the
\* events root.
CheckTaskRelativePath(e) ==
    LET file == RelPath(e)
        path == file
        content == e.text
        parsed == SafeParse(content)
    IN  IF StartsWith(file, ".")
        THEN [st |-> "Skipped", result |-> Fulfilled, sink |-> <<>>]
        ELSE IF JSONParse(content).threw
        THEN [st |-> "ParseFailed",
              result |-> Rejected("JSONParseError", path, <<>>, "", FALSE),
              sink |-> <<>>]
        ELSE IF ~parsed.success
        THEN [st |-> "SchemaFailed",
              result |-> Rejected("SchemaValidationError", path, parsed.issues,
                                  content, e.miss),
              sink |-> <<>>]
        ELSE [st |-> "Validated", result |-> Fulfilled,
              sink |-> <<Info("Validated event: " \o path)>>]

\* The task of one entry: it holds no await, so it runs to its end when
\* files.map calls it.
CheckTask(e) ==
    LET file == RelPath(e)
        path == join(Cwd, file)
        content == e.text
        parsed == SafeParse(content)
    IN  IF StartsWith(file, ".")
        THEN [st |-> "Skipped", result |-> Fulfilled, sink |-> <<>>]
        ELSE IF e.kind = "dir"
        THEN [st |-> "Rejected", result |-> RejectedWith("Error", ReadDirError),
              sink |-> <<>>]
        ELSE IF FaultOf(e) = "read"
        THEN [st |-> "Rejected",
              result |-> RejectedWith("Error", ReadError(path)),
              sink |-> <<>>]
        ELSE IF FaultOf(e) = "readOdd"
        THEN [st |-> "Rejected", result |-> RejectedWith("value", OddValue),
              sink |-> <<>>]
        ELSE IF JSONParse(content).threw
        THEN [st |-> "ParseFailed",
              result |-> Rejected("JSONParseError", path, <<>>, "", FALSE),
              sink |-> <<>>]
        ELSE IF ~parsed.success
        THEN [st |-> "SchemaFailed",
              result |-> Rejected("SchemaValidationError", path, parsed.issues,
                                  content, e.miss),
              sink |-> <<>>]
        ELSE IF FaultOf(e) = "info"
        THEN [st |-> "Rejected", result |-> RejectedWith("Error", SinkError),
              sink |-> <<>>]
        ELSE [st |-> "Validated", result |-> Fulfilled,
              sink |-> <<Info("Validated event: " \o path)>>]

\* checkEvents() up to `await Promise.allSettled(...)`.
CheckStart ==
    /\ prog = "checkEvents"
    /\ phase = "init"
    /\ phase' = "await"
    /\ st' = [i \in DOMAIN files |-> CheckTask(files[i]).st]
    /\ results' = [i \in DOMAIN files |-> CheckTask(files[i]).result]
    /\ sink' = sink
               \o Flatten([i \in DOMAIN files |-> CheckTask(files[i]).sink],
                          Len(files))
    /\ UNCHANGED <<prog, eventsPath, files, errorCount, events, writes,
                   outcome, posVars>>

IsRejected(result) == result.status = "rejected"

\* results.filter(rejected).map(reason)
ErrorsOf(rs) == SelectSeq(rs, IsRejected)

\* error.annotate(), or the generic report of any other rejection.
Annotate(error) ==
    IF error.class = "SchemaValidationError"
    THEN AnnotateIssues(error.path, error.content, error.miss, error.issues)
    ELSE IF error.class = "JSONParseError"
    THEN <<ErrorAt("Invalid JSON file!", error.path)>>
    ELSE <<ErrorNoFile("Unexpected error: " \o error.message)>>

\* if (errors.length > 0) core.setFailed(...)
CheckVerdict(errors) == IF Len(errors) > 0 THEN "failed" ELSE "success"

\* checkEvents() after Promise.allSettled resolved.
CheckFinish ==
    /\ prog = "checkEvents"
    /\ phase = "await"
    /\ phase' = "done"
    /\ LET errors == ErrorsOf(results)
       IN  /\ sink' = sink
                      \o Flatten([k \in DOMAIN errors |-> Annotate(errors[k])],
                                 Len(errors))
                      \o IF CheckVerdict(errors) = "failed"
                         THEN <<SetFailed("Validation failed for "
                                          \o ToString(Len(errors))
                                          \o " file(s)!")>>
                         ELSE <<>>
           /\ outcome' = CheckVerdict(errors)
    /\ UNCHANGED <<prog, eventsPath, files, st, errorCount, events, results,
                   writes, posVars>>

Next ==
    \/ RunStart
    \/ \E i \in 1..MaxFiles : RunResume(i)
    \/ RunFinish
    \/ MainStart
    \/ MainFinish
    \/ CheckStart
    \/ CheckFinish

Spec == Init /\ [][Next]_vars

(***************************************************************************)
(* The pipelines where reads and the sink may fail.                        *)
(***************************************************************************)
InitFaults ==
    /\ prog \in {"run", "main", "checkEvents"}
    /\ eventsPath \in {"", "."}
    /\ files \in UNION {FaultSeqs(n) : n \in 0..MaxFiles}
    \* checkEvents opens whatever the walk matched; a directory makes
    \* readFileSync fail, what other non-files do is left out.
    /\ prog = "checkEvents" => \A i \in DOMAIN files : files[i].kind # "other"
    /\ phase = "init"
    /\ st = Pending(files)
    /\ errorCount = 0
    /\ events = <<>>
    /\ results = <<>>
    /\ sink = <<>>
    /\ writes = <<>>
    /\ outcome = "running"
    /\ ptext = ""
    /\ poffset = 0
    /\ ppos = <<>>

SpecFaults == InitFaults /\ [][Next]_vars

(***************************************************************************)
(* The position resolver on its own: every text over a letter and the      *)
(* line break up to MaxLen characters, every offset in [0, length].         *)
(***************************************************************************)
RECURSIVE Texts(_)
Texts(n) ==
    IF n = 0 THEN {""}
    ELSE Texts(n - 1) \cup {t \o c : t \in Texts(n - 1), c \in {"a", "\n"}}

InitPos ==
    /\ prog = "none"
    /\ eventsPath = ""
    /\ files = <<>>
    /\ phase = "done"
    /\ st = <<>>
    /\ errorCount = 0
    /\ events = <<>>
    /\ results = <<>>
    /\ sink = <<>>
    /\ writes = <<>>
    /\ outcome = "running"
    /\ ptext \in Texts(MaxLen)
    /\ poffset \in 0..Len(ptext)
    /\ ppos = <<>>

Resolve ==
    /\ ppos = <<>>
    /\ ppos' = <<getPosition(ptext, poffset)>>
    /\ UNCHANGED <<pipeVars, ptext, poffset>>

NextPos == Resolve

SpecPos == InitPos /\ [][NextPos]_vars

(***************************************************************************)
(* What the properties are stated against: the class each document has by  *)
(* construction, and what the sink and the disk received.                  *)
(***************************************************************************)
Cls(i) == DocOf(files[i].text).cls

\* The files a pipeline has read and finished with.
Processed ==
    {i \in DOMAIN files :
        files[i].kind = "file" /\ st[i] \notin {"pending", "reading", "Skipped"}}

\* Those of them that are not JSON or that the schema rejects, and K.
FailingFiles == {i \in Processed : Cls(i) \in {"invalid", "schema"}}
PassingFiles == {i \in Processed : Cls(i) = "ok"}
K == Cardinality(FailingFiles)

\* FailureCount: run's counter, checkEvents' rejected results.
FailureCount ==
    IF prog # "checkEvents" THEN errorCount ELSE Len(ErrorsOf(results))

IsSetFailed(call) == call.op = "setFailed"
SetFailedCalls == SelectSeq(sink, IsSetFailed)

\* The writes of the manifest.
IsManifestWrite(w) == w.path = ".index.json"
ManifestWrites == SelectSeq(writes, IsManifestWrite)

\* C1: the run ends failed (setFailed called) iff some file failed to
\* parse or failed validation, and ends in success when none did; before
\* the end no verdict is given.
C1_FailedIffSomeFileFailed ==
    /\ phase = "done" =>
          /\ outcome \in {"failed", "success"}
          /\ outcome = "failed" <=> K > 0
          /\ Len(SetFailedCalls) = (IF K > 0 THEN 1 ELSE 0)
    /\ phase # "done" => outcome = "running" /\ SetFailedCalls = <<>>

C1_Witness ==
    /\ phase = "done"
    /\ outcome = "failed"
    /\ PassingFiles # {}
    /\ Len(files) = MaxFiles

\* C2: the failure count is the number of failing files settled so far,
\* hence K once all have settled, in every order of the tasks; the summary
\* failure message names K.
C2_FailureCountIsK ==
    /\ FailureCount = K
    /\ (phase = "done" /\ K > 0) =>
          /\ Len(sink) > 0
          /\ sink[Len(sink)].op = "setFailed"
          /\ sink[Len(sink)].msg =
                (IF prog # "checkEvents"
                 THEN "Event data validation failed for " \o ToString(K)
                      \o " event(s)."
                 ELSE "Validation failed for " \o ToString(K) \o " file(s)!")

C2_Witness ==
    /\ phase = "done"
    /\ prog = "run"
    /\ K = 2
    /\ \E i \in FailingFiles : Len(DocOf(files[i].text).issues) >= 2
    /\ \E i \in FailingFiles : Cls(i) = "invalid"

\* C3: the manifest run writes lists exactly the files that passed: N - K
\* entries for N processed files, none for a failed or skipped file.
C3_ManifestListsThePassingFiles ==
    (prog = "run" /\ phase = "done") =>
        /\ Len(ManifestWrites) = 1
        /\ LET entries == ManifestWrites[1].data.events
           IN  /\ Len(entries) = Cardinality(Processed) - K
               /\ \A i \in PassingFiles :
                     \E k \in DOMAIN entries : entries[k].path = RunPath(files[i])
               /\ \A k \in DOMAIN entries :
                     \E i \in PassingFiles : entries[k].path = RunPath(files[i])

C3_Witness ==
    /\ prog = "run"
    /\ phase = "done"
    /\ Len(ManifestWrites) = 1
    /\ Len(ManifestWrites[1].data.events) = 1
    /\ K = 1
    /\ Len(files) = MaxFiles

\* The path file i is reported under: the events directory, then the
\* file's directory and name.
ReportedPath(i) ==
    join(Cwd, IF files[i].parent = "" THEN files[i].name
              ELSE files[i].parent \o "/" \o files[i].name)

\* File i is processed and its diagnostics are out: run emits them in the
\* task, checkEvents after all tasks settled.
Reported(i) == i \in Processed /\ (prog # "checkEvents" \/ phase = "done")

\* The core.error calls that name file i, in order.
DiagsFor(i) ==
    LET Mine(call) == call.op = "error" /\ call.file = ReportedPath(i)
    IN  SelectSeq(sink, Mine)

NoSpan(d) ==
    /\ d.startLine = None
    /\ d.startColumn = None
    /\ d.endLine = None
    /\ d.endColumn = None

IssuesOf(i) == DocOf(files[i].text).issues

\* C4: a file that is not JSON counts once and gets exactly one
\* diagnostic, "Invalid JSON file!", with the file path and no span.
C4_ParseFailureIsOneFixedDiagnostic ==
    \A i \in DOMAIN files :
        (Reported(i) /\ Cls(i) = "invalid") =>
            /\ FailureCount = K
            /\ Len(DiagsFor(i)) = 1
            /\ DiagsFor(i)[1].msg = "Invalid JSON file!"
            /\ DiagsFor(i)[1].file = ReportedPath(i)
            /\ NoSpan(DiagsFor(i)[1])

\* C5: a file that fails the schema with n issues counts once and gets
\* exactly n diagnostics, one per issue with its message and the file
\* path, all without span when the position-aware parse returns nothing.
C5_OneDiagnosticPerIssue ==
    \A i \in DOMAIN files :
        (Reported(i) /\ Cls(i) = "schema") =>
            /\ FailureCount = K
            /\ Len(DiagsFor(i)) = Len(IssuesOf(i))
            /\ \A k \in DOMAIN DiagsFor(i) :
                  /\ DiagsFor(i)[k].msg = IssuesOf(i)[k].message
                  /\ DiagsFor(i)[k].file = ReportedPath(i)
                  /\ files[i].miss => NoSpan(DiagsFor(i)[k])

\* C6: an issue whose path names no value of the document (missing key,
\* index out of range, step of the wrong type) is not located, its
\* diagnostic carries the file path and no span, and every issue of the
\* file, before and after it, is still emitted.
C6_UnresolvedPathDegradesToFileLevel ==
    \A i \in DOMAIN files :
        (Reported(i) /\ Cls(i) = "schema" /\ ~files[i].miss) =>
            /\ Len(DiagsFor(i)) = Len(IssuesOf(i))
            /\ \A k \in DOMAIN IssuesOf(i) :
                  /\ DiagsFor(i)[k].msg = IssuesOf(i)[k].message
                  /\ DiagsFor(i)[k].file = ReportedPath(i)
                  /\ IssuesOf(i)[k].at = <<>> =>
                        /\ findNodeAtLocation(parseTree(files[i].text, FALSE),
                                              IssuesOf(i)[k].path) = NoNode
                        /\ NoSpan(DiagsFor(i)[k])

C6_Witness ==
    \E i \in DOMAIN files :
        /\ Reported(i)
        /\ files[i].text = DocDeep.text
        /\ ~files[i].miss
        /\ Len(DiagsFor(i)) = 6
        /\ NoSpan(DiagsFor(i)[1])
        /\ ~NoSpan(DiagsFor(i)[2])
        /\ NoSpan(DiagsFor(i)[3])
        /\ NoSpan(DiagsFor(i)[4])

\* The 1-indexed line and column of offset o, counted on the text itself:
\* one more than the line breaks before o, and one more than the distance
\* from the start of o's line.
BreaksBefore(text, o) ==
    Cardinality({j \in 0..(o - 1) : CharAt(text, j) = "\n"})

LineStart(text, o) ==
    CHOOSE b \in 0..o :
        /\ \A j \in b..(o - 1) : CharAt(text, j) # "\n"
        /\ b = 0 \/ CharAt(text, b - 1) = "\n"

Line1(text, o) == BreaksBefore(text, o) + 1
Column1(text, o) == o - LineStart(text, o) + 1

\* C7: an issue whose path names a value is located at it: the start is
\* the 1-indexed line and column of the value's first character, the end
\* those of the position just past its last character.
C7_LocatedSpanIsOneIndexed ==
    \A i \in DOMAIN files :
        (Reported(i) /\ Cls(i) = "schema" /\ ~files[i].miss) =>
            \A k \in DOMAIN IssuesOf(i) :
                IssuesOf(i)[k].at # <<>> =>
                    LET o == IssuesOf(i)[k].at[1]
                        e == IssuesOf(i)[k].at[1] + IssuesOf(i)[k].at[2]
                        d == DiagsFor(i)[k]
                    IN  /\ k \in DOMAIN DiagsFor(i)
                        /\ d.startLine = Some(Line1(files[i].text, o))
                        /\ d.startColumn = Some(Column1(files[i].text, o))
                        /\ d.endLine = Some(Line1(files[i].text, e))
                        /\ d.endColumn = Some(Column1(files[i].text, e))

C7_Witness ==
    \E i \in DOMAIN files :
        /\ Reported(i)
        /\ files[i].text = DocDeep.text
        /\ ~files[i].miss
        /\ Len(DiagsFor(i)) = 6
        /\ DiagsFor(i)[5].startLine = Some(3)
        /\ DiagsFor(i)[5].startColumn = Some(6)
        /\ DiagsFor(i)[5].endLine = Some(4)
        /\ DiagsFor(i)[5].endColumn = Some(7)

\* The offset at which line `line` (0-indexed) starts: the lengths of the
\* lines before it, line breaks included.
OffsetOfLine(text, line) ==
    CHOOSE b \in 0..Len(text) :
        /\ BreaksBefore(text, b) = line
        /\ \A c \in 0..(b - 1) : BreaksBefore(text, c) < line \/ line = 0

\* C8: getPosition's line is the number of line breaks strictly before the
\* offset, and the (line, column) it returns leads back to the offset.
C8_LineCountAndRoundTrip ==
    ppos # <<>> =>
        /\ ppos[1].line = BreaksBefore(ptext, poffset)
        /\ OffsetOfLine(ptext, ppos[1].line) + ppos[1].column = poffset

\* The index of the last line break at or before p, or -1.
LastBreakAtOrBefore(text, p) ==
    LET breaks == {j \in 0..p : CharAt(text, j) = "\n"}
    IN  IF breaks = {} THEN -1
        ELSE CHOOSE j \in breaks : \A m \in breaks : m <= j

\* C9: getPosition(text, 0) is line 0, column 0 for every text, and for
\* every offset up to the length line and column are non-negative, the
\* column being the distance from the last line break before the offset.
C9_OffsetZeroAndNonNegative ==
    ppos # <<>> =>
        /\ poffset = 0 => (ppos[1].line = 0 /\ ppos[1].column = 0)
        /\ ppos[1].line >= 0
        /\ ppos[1].column >= 0
        /\ ppos[1].column
              = poffset - LastBreakAtOrBefore(ptext, poffset - 1) - 1

\* The base publication URL.
PagesUrl == "https://" \o Owner \o ".github.io/" \o Repo

\* C10: the manifest entry of a validated event at path p relative to the
\* events root has path p and url PagesUrl + "/events/" + p.
C10_ManifestUrlIsBasePlusRelativePath ==
    (prog = "run" /\ phase = "done") =>
        /\ Len(ManifestWrites) = 1
        /\ \A i \in PassingFiles :
              \E k \in DOMAIN ManifestWrites[1].data.events :
                  /\ ManifestWrites[1].data.events[k].path = RelPath(files[i])
                  /\ ManifestWrites[1].data.events[k].url
                        = PagesUrl \o "/events/" \o RelPath(files[i])

\* C11: an entry whose name begins with "." is skipped before any I/O,
\* at every depth: its task never gets past Skipped, no call on the sink
\* names it, and it is neither counted as a failure nor recorded as an
\* event.
C11_HiddenFileIsSkippedUntouched ==
    \A i \in DOMAIN files :
        StartsWith(files[i].name, ".")
            => /\ st[i] \in {"pending", "Skipped"}
               /\ \A k \in DOMAIN sink : sink[k].file # ReportedPath(i)
               /\ \A k \in DOMAIN results : k = i => ~IsRejected(results[k])
               /\ \A k \in DOMAIN events : events[k] # ReportedPath(i)

\* C14: a manifest or a directory listing is written only after every
\* per-file task has settled: while a task is still to start or awaits its
\* read, nothing has been written.
C14_ArtifactsOnlyAfterAllTasksSettled ==
    writes # <<>>
        => \A i \in DOMAIN files : st[i] \notin {"pending", "reading"}

\* A diagnostic is a core.error call.
IsDiagnostic(call) == call.op = "error"
Diagnostics == SelectSeq(sink, IsDiagnostic)

HasSpan(d) ==
    /\ d.startLine # None
    /\ d.startColumn # None
    /\ d.endLine # None
    /\ d.endColumn # None

\* C18: every emitted diagnostic carries all four of start line, start
\* column, end line and end column, or none of them; when it carries them
\* each is at least 1 and the start is not after the end.
C18_SpanIsWholeOneIndexedAndOrdered ==
    \A k \in DOMAIN Diagnostics :
        LET d == Diagnostics[k]
        IN  \/ NoSpan(d)
            \/ /\ HasSpan(d)
               /\ d.startLine[1] >= 1
               /\ d.startColumn[1] >= 1
               /\ d.endLine[1] >= 1
               /\ d.endColumn[1] >= 1
               /\ \/ d.startLine[1] < d.endLine[1]
                  \/ /\ d.startLine[1] = d.endLine[1]
                     /\ d.startColumn[1] <= d.endColumn[1]

\* A finished pass that emitted a diagnostic without a span, one within a
\* line and one that spans lines.
C18_Witness ==
    /\ phase = "done"
    /\ \E k \in DOMAIN Diagnostics : NoSpan(Diagnostics[k])
    /\ \E k \in DOMAIN Diagnostics :
        /\ HasSpan(Diagnostics[k])
        /\ Diagnostics[k].startLine = Diagnostics[k].endLine
        /\ Diagnostics[k].startColumn[1] < Diagnostics[k].endColumn[1]
    /\ \E k \in DOMAIN Diagnostics :
        /\ HasSpan(Diagnostics[k])
        /\ Diagnostics[k].startLine[1] < Diagnostics[k].endLine[1]

\* What checkEvents makes of the same entries: the rejections it collects.
CheckEventsErrors ==
    ErrorsOf([i \in DOMAIN files |-> CheckTask(files[i]).result])

\* The core.error calls of the sink that carry the path run gives file i.
RunDiagsFor(i) ==
    LET Mine(call) == call.op = "error" /\ call.file = RunPath(files[i])
    IN  SelectSeq(sink, Mine)

\* Every entry is a regular file whose name is not hidden.
OnlyVisibleFiles ==
    \A i \in DOMAIN files :
        files[i].kind = "file" /\ ~StartsWith(files[i].name, ".")

AllSettled == \A i \in DOMAIN files : st[i] \notin {"pending", "reading"}

\* The files whose task ended in a failure of any kind.
FailedTasks ==
    {i \in DOMAIN files :
        st[i] \in {"ParseFailed", "SchemaFailed", "Rejected", "Caught"}}

\* The aggregate summary each pipeline ends a failed pass with.
SummaryOf(n) ==
    SetFailed(IF prog # "checkEvents"
              THEN "Event data validation failed for " \o ToString(n)
                   \o " event(s)."
              ELSE "Validation failed for " \o ToString(n) \o " file(s)!")

\* C12: an exception that is neither a parse nor a schema failure (a read
\* that fails) is recovered by the pipeline.  Once every task has ended, a
\* file whose task ended by such an exception has an error logged under
\* its path, FailureCount counts it along with every other failing file,
\* and the pass ended failed by the aggregate summary alone.
C12_UnexpectedFailureIsCountedAndSummarised ==
    (phase = "done" /\ AllSettled) =>
        \A i \in DOMAIN files :
            st[i] = "Rejected" =>
                /\ \E k \in DOMAIN sink :
                      sink[k].op = "error" /\ sink[k].file = ReportedPath(i)
                /\ FailureCount = Cardinality(FailedTasks)
                /\ SetFailedCalls = <<SummaryOf(Cardinality(FailedTasks))>>

\* C13: an exception that escapes the tasks of run, whatever value is
\* thrown, ends the run failed: once a task of run has ended by a rejected
\* read, setFailed has been called and the outcome is failed.
C13_EscapedExceptionEndsFailed ==
    (prog \in {"run", "main"}
     /\ \E i \in DOMAIN files : st[i] = "Rejected") =>
        /\ outcome = "failed"
        /\ Len(SetFailedCalls) = 1

\* C15: the aggregate result is computed only after every launched task is
\* terminal: while a task is still to start or awaits its read, no verdict
\* has been reached.
C15_VerdictOnlyAfterAllTasksTerminal ==
    outcome # "running" => AllSettled

\* What the pipeline makes of entry e when e is the only entry: the state
\* its task ends in, the calls on the sink, and whether the manifest that
\* is written lists it.
ReadFails(e) == FaultOf(e) \in {"read", "readOdd"}

AloneStart(e) == IF prog = "run" THEN TaskStart(e) ELSE MainTaskStart(e)

AloneState(e) ==
    IF prog = "checkEvents" THEN CheckTask(e).st
    ELSE IF AloneStart(e).st # "reading" THEN AloneStart(e).st
    ELSE IF ReadFails(e) THEN "Rejected"
    ELSE TaskBody(e, 0, <<>>).st

AloneLines(e) ==
    IF prog = "checkEvents"
    THEN CheckTask(e).sink
         \o IF IsRejected(CheckTask(e).result)
            THEN Annotate(CheckTask(e).result) ELSE <<>>
    ELSE AloneStart(e).sink
         \o IF AloneStart(e).st = "reading" /\ ~ReadFails(e)
            THEN TaskBody(e, 0, <<>>).sink ELSE <<>>

AloneListed(e) ==
    /\ prog = "run"
    /\ TaskStart(e).st = "reading"
    /\ ~ReadFails(e)
    /\ TaskBody(e, 0, <<>>).events # <<>>

\* The calls of a sequence of calls that name entry e: by their file, or as
\* the info line of its validation or of its listing.
LinesNaming(e, calls) ==
    LET Mine(call) ==
            \/ call.file = RunPath(e)
            \/ call.msg = "Validated event: " \o RunPath(e)
            \/ call.msg = "Listed directory: " \o RunPath(e)
    IN  SelectSeq(calls, Mine)

Listed(e) ==
    \E w \in DOMAIN ManifestWrites :
        \E k \in DOMAIN ManifestWrites[w].data.events :
            ManifestWrites[w].data.events[k].path = RunPath(e)

\* C16: one file's outcome never affects another's.  Once the pass is over
\* and every task has ended, each entry's terminal state, the lines of the
\* sink that name it and its membership in the manifest are what they are
\* when the entry is processed alone, whatever the other entries are and
\* in whatever order the reads completed.
C16_FileOutcomeIndependentOfOthers ==
    (phase = "done" /\ AllSettled) =>
        \A i \in DOMAIN files :
            /\ st[i] = AloneState(files[i])
            /\ LinesNaming(files[i], sink)
                   = LinesNaming(files[i], AloneLines(files[i]))
            /\ Listed(files[i]) <=> AloneListed(files[i])

\* The files run has counted in errorCount, and the files it has recorded
\* in the validated-events collection.
CountedFiles ==
    {i \in DOMAIN files : st[i] \in {"ParseFailed", "SchemaFailed", "Caught"}}
RecordedFiles ==
    {i \in DOMAIN files :
        \E k \in DOMAIN events : events[k] = RunPath(files[i])}

\* C17: in run, a file is never both recorded as a validated event and
\* counted as a failure, also when the sink raises: the counter is the
\* number of counted files, and no counted file is among the events.
C17_ValidatedAndFailedAreDisjoint ==
    prog \in {"run", "main"} =>
        /\ errorCount = Cardinality(CountedFiles)
        /\ CountedFiles \cap RecordedFiles = {}

\* C20: run writes the manifest exactly once when no exception escapes a
\* per-file task, failed runs included, and not at all when one escapes to
\* the top-level handler; it is never written before run() is over.
C20_ManifestWrittenOnceUnlessEscaped ==
    prog = "run" =>
        /\ phase # "done" => ManifestWrites = <<>>
        /\ phase = "done" =>
              Len(ManifestWrites)
                  = IF \E i \in DOMAIN files : st[i] = "Rejected" THEN 0 ELSE 1

\* A run that ended failed by its summary, having counted two files, with
\* its one manifest written.
C20_Witness ==
    /\ prog = "run"
    /\ phase = "done"
    /\ \A i \in DOMAIN files : st[i] # "Rejected"
    /\ errorCount = 2
    /\ SetFailedCalls = <<SummaryOf(2)>>
    /\ Len(ManifestWrites) = 1

=============================================================================
